---- MODULE Spec2Model ----
(***************************************************************************)
(* Model of the container fleet core of shipyard's controller manager:     *)
(* Manager.Run (concurrent launch), Manager.Destroy, Manager.Scale and     *)
(* Manager.RedeployContainers, running against a container runtime whose   *)
(* calls (list, inspect, pull, create, start, kill, remove) may each fail. *)
(*                                                                         *)
(* Image references are sequences of tokens so that strings.Index(a, b)    *)
(* > -1 is a real substring test: <<"app", ":v1">> stands for "app:v1".    *)
(* A container of the runtime is a record                                  *)
(*   [Id, Image, Args, Memory, Hostname, State]                            *)
(* where Args is len(ContainerInfo.Args), Memory is Config.Memory and      *)
(* State is "created", "running" or "exited".  InspectContainer(id)        *)
(* returns that record; the listing returns the records in order.          *)
(*                                                                         *)
(* The runtime is the environment: every call of it either succeeds, with  *)
(* the effect of Killed, Removed, Created or Started, or fails and changes *)
(* nothing.  A call on a container that does not exist fails; a created    *)
(* container is listed after the older ones.  A behaviour is one exported  *)
(* operation (Run, Destroy, Scale or RedeployContainers) called on one of  *)
(* the initial fleets; calls records the runtime calls it issued.          *)
(***************************************************************************)
EXTENDS Integers, Sequences, FiniteSets, TLC

\* ---------------------------------------------------------------- bounds
MaxId == 6          \* the runtime refuses to create more containers than this
MaxCount == 2       \* largest count handed to Run
MaxScale == 3       \* largest count handed to Scale

\* ---------------------------------------------------------------- values
ImgApp == <<"app">>
ImgAppV1 == <<"app", ":v1">>
ImgAppV10 == <<"app", ":v1", "0">>
ImgDb == <<"db">>

NoErr == "nil"

\* dockerclient.ContainerConfig as far as the core reads it
MkConfig(image, args, memory, hostname) ==
    [Image |-> image, Args |-> args, Memory |-> memory, Hostname |-> hostname]

MkContainer(id, cfg, state) ==
    [Id |-> id, Image |-> cfg.Image, Args |-> cfg.Args, Memory |-> cfg.Memory,
     Hostname |-> cfg.Hostname, State |-> state]

ConfigOf(c) == MkConfig(c.Image, c.Args, c.Memory, c.Hostname)

CfgWeb == MkConfig(ImgAppV1, 1, 512, "web")
CfgWebBig == MkConfig(ImgAppV1, 1, 1024, "web")
CfgWeb10 == MkConfig(ImgAppV10, 1, 512, "")
CfgDb == MkConfig(ImgDb, 0, 0, "db")

\* configurations a caller hands to Run and Scale
Configs == {CfgWeb, CfgWebBig}

\* image names a caller hands to RedeployContainers
RedeployImages == {ImgApp, ImgAppV1, ImgDb}

\* fleets the runtime may hold when the manager is constructed
InitialFleets ==
    { << MkContainer(1, CfgWeb, "running"),
         MkContainer(2, CfgWeb, "running"),
         MkContainer(3, CfgDb, "running") >>,
      << MkContainer(1, CfgWeb, "running"),
         MkContainer(2, CfgWebBig, "running"),
         MkContainer(3, CfgWeb, "exited") >>,
      << MkContainer(1, CfgWeb10, "running"),
         MkContainer(2, CfgWeb, "running"),
         MkContainer(3, CfgWeb, "running") >> }

\* ---------------------------------------------------------------- helpers
Range(s) == {s[i] : i \in 1..Len(s)}

\* strings.Index(s, sub) > -1
Contains(s, sub) ==
    \E i \in 0..(Len(s) - Len(sub)) : SubSeq(s, i + 1, i + Len(sub)) = sub


\* ---------------------------------------------------------------- state
VARIABLES
    containers,   \* the runtime's containers, in listing order
    nextId,       \* identifier the runtime gives to the next created container
    events,       \* the event table (append-only sink)
    pc,           \* position of the calling goroutine
    calls,        \* runtime and event-table calls of the operation, in order
    ret,          \* what the last finished operation returned
    pre,          \* the runtime's containers when the operation was called
    run,          \* arguments of the Run call in progress
    launched,     \* Run: the shared result slice
    wg,           \* Run: the WaitGroup counter
    runErr,       \* Run: the shared error variable
    attempts,     \* Run: the goroutines, one per attempt
    destroy,      \* arguments and error of the Destroy call in progress
    scale,        \* locals of the Scale call in progress (given: the
                  \* configuration of the container as the caller passed it)
    rd            \* locals of the RedeployContainers call in progress

vars == << containers, nextId, events, pc, calls, ret, pre, run, launched,
           wg, runErr, attempts, destroy, scale, rd >>

NoRun == [Config |-> CfgDb, Count |-> 0, Pull |-> FALSE, Caller |-> "none"]
NoDestroy == [Id |-> 0, Caller |-> "none", Err |-> NoErr]
NoScale == [container |-> [Id |-> 0, Config |-> CfgDb], count |-> 0,
            info |-> [Id |-> 0], imageContainers |-> <<>>,
            delContainers |-> <<>>, i |-> 0, given |-> CfgDb,
            again |-> FALSE]
NoRd == [image |-> <<>>, containers |-> <<>>, i |-> 0, cfg |-> CfgDb,
         containerId |-> 0, deployed |-> FALSE]
NoRet == [Op |-> "none", Err |-> NoErr, Ids |-> <<>>]

Init ==
    /\ containers \in InitialFleets
    /\ nextId = 4
    /\ events = <<>>
    /\ pc = "idle"
    /\ calls = <<>>
    /\ ret = NoRet
    /\ pre = <<>>
    /\ run = NoRun
    /\ launched = <<>>
    /\ wg = 0
    /\ runErr = NoErr
    /\ attempts = <<>>
    /\ destroy = NoDestroy
    /\ scale = NoScale
    /\ rd = NoRd

\* ---------------------------------------------------------------- runtime
Ids == {containers[i].Id : i \in 1..Len(containers)}

Exists(id) == id \in Ids

IndexOf(id) == CHOOSE i \in 1..Len(containers) : containers[i].Id = id

\* the record of one runtime call in the call log
Call(op, arg, ok) == [op |-> op, arg |-> arg, ok |-> ok]

\* m.Containers(all): every container, or only the running ones
Listing(all) ==
    SelectSeq(containers, LAMBDA c : all \/ c.State = "running")

\* effect of a successful KillContainer
Killed(id) ==
    [i \in 1..Len(containers) |->
        IF containers[i].Id = id THEN [containers[i] EXCEPT !.State = "exited"]
        ELSE containers[i]]

\* effect of a successful RemoveContainer(id, force)
Removed(id) == SelectSeq(containers, LAMBDA c : c.Id # id)

\* effect of a successful CreateContainer(cfg, "")
Created(cfg) == Append(containers, MkContainer(nextId, cfg, "created"))

\* effect of a successful StartContainer
Started(id) ==
    [i \in 1..Len(containers) |->
        IF containers[i].Id = id THEN [containers[i] EXCEPT !.State = "running"]
        ELSE containers[i]]

\* an operation is started by a caller that has no operation in progress
CanBegin == pc = "idle"

\* ---------------------------------------------------------------- Run
\* the first statement a launch goroutine executes
AttemptEntry(pull) == IF pull THEN "pull" ELSE "create"

\* Run up to wg.Wait(): launched, wg.Add(count), runErr, and the goroutines
RunEnter(config, count, pull, caller) ==
    /\ run' = [Config |-> config, Count |-> count, Pull |-> pull, Caller |-> caller]
    /\ launched' = <<>>
    /\ wg' = count
    /\ runErr' = NoErr
    /\ attempts' = [i \in 1..count |->
                      [pc |-> AttemptEntry(pull), id |-> 0, snap |-> <<>>]]
    /\ pc' = "run_wait"

RunBegin(config, count, pull) ==
    /\ CanBegin
    /\ calls' = <<>>
    /\ ret' = NoRet
    /\ pre' = containers
    /\ RunEnter(config, count, pull, "api")
    /\ UNCHANGED << containers, nextId, events, destroy, scale, rd >>

\* what a goroutine does when a runtime call fails: runErr = err; return
AttemptFail(i) ==
    /\ runErr' = "err"
    /\ attempts' = [attempts EXCEPT ![i].pc = "failed"]
    /\ UNCHANGED << wg, launched >>

AttemptPull(i, ok) ==
    /\ pc = "run_wait"
    /\ i \in DOMAIN attempts
    /\ attempts[i].pc = "pull"
    /\ calls' = Append(calls, Call("pull", run.Config.Image, ok))
    /\ IF ok
       THEN /\ attempts' = [attempts EXCEPT ![i].pc = "create"]
            /\ UNCHANGED << runErr, wg, launched >>
       ELSE AttemptFail(i)
    /\ UNCHANGED << containers, nextId, events, pc, ret, pre, run, destroy,
                    scale, rd >>

AttemptCreate(i, ok) ==
    /\ pc = "run_wait"
    /\ i \in DOMAIN attempts
    /\ attempts[i].pc = "create"
    /\ ok => nextId <= MaxId
    /\ calls' = Append(calls, Call("create", run.Config, ok))
    /\ IF ok
       THEN /\ containers' = Created(run.Config)
            /\ nextId' = nextId + 1
            /\ attempts' = [attempts EXCEPT ![i].pc = "start", ![i].id = nextId]
            /\ UNCHANGED << runErr, wg, launched >>
       ELSE /\ AttemptFail(i)
            /\ UNCHANGED << containers, nextId >>
    /\ UNCHANGED << events, pc, ret, pre, run, destroy, scale, rd >>

AttemptStart(i, ok) ==
    /\ pc = "run_wait"
    /\ i \in DOMAIN attempts
    /\ attempts[i].pc = "start"
    /\ calls' = Append(calls, Call("start", attempts[i].id, ok))
    /\ IF ok
       THEN /\ containers' = Started(attempts[i].id)
            /\ attempts' = [attempts EXCEPT ![i].pc = "read"]
            /\ UNCHANGED << runErr, wg, launched >>
       ELSE /\ AttemptFail(i)
            /\ UNCHANGED containers
    /\ UNCHANGED << nextId, events, pc, ret, pre, run, destroy, scale, rd >>

\* launched = append(launched, containerId) is not synchronized: the
\* goroutine reads the slice, and later stores the appended slice
AttemptAppendRead(i) ==
    /\ pc = "run_wait"
    /\ i \in DOMAIN attempts
    /\ attempts[i].pc = "read"
    /\ attempts' = [attempts EXCEPT ![i].pc = "write", ![i].snap = launched]
    /\ UNCHANGED << containers, nextId, events, pc, calls, ret, pre, run,
                    launched, wg, runErr, destroy, scale, rd >>

AttemptAppendWrite(i) ==
    /\ pc = "run_wait"
    /\ i \in DOMAIN attempts
    /\ attempts[i].pc = "write"
    /\ launched' = Append(attempts[i].snap, attempts[i].id)
    /\ attempts' = [attempts EXCEPT ![i].pc = "signal", ![i].snap = <<>>]
    /\ UNCHANGED << containers, nextId, events, pc, calls, ret, pre, run,
                    wg, runErr, destroy, scale, rd >>

\* wg.Done(), reached on the success path only
AttemptDone(i) ==
    /\ pc = "run_wait"
    /\ i \in DOMAIN attempts
    /\ attempts[i].pc = "signal"
    /\ wg' = wg - 1
    /\ attempts' = [attempts EXCEPT ![i].pc = "done"]
    /\ UNCHANGED << containers, nextId, events, pc, calls, ret, pre, run,
                    launched, runErr, destroy, scale, rd >>

\* wg.Wait() returns, and Run returns launched, runErr; Scale turns a
\* non-nil error of Run into its own return value
RunReturn ==
    /\ pc = "run_wait"
    /\ wg = 0
    /\ pc' = "done"
    /\ ret' = [Op |-> IF run.Caller = "scale" THEN "scale" ELSE "run",
               Err |-> runErr,
               Ids |-> IF run.Caller = "scale" THEN <<>> ELSE launched]
    /\ UNCHANGED << containers, nextId, events, calls, pre, run, launched,
                    wg, runErr, attempts, destroy, scale, rd >>

\* ---------------------------------------------------------------- Destroy
\* the caller, Scale or RedeployContainers calls Destroy(id)
DestroyEnter(id, caller) ==
    /\ destroy' = [Id |-> id, Caller |-> caller, Err |-> NoErr]
    /\ pc' = "destroy_kill"

DestroyBegin(id) ==
    /\ CanBegin
    /\ calls' = <<>>
    /\ ret' = NoRet
    /\ pre' = containers
    /\ DestroyEnter(id, "api")
    /\ UNCHANGED << containers, nextId, events, run, launched, wg, runErr,
                    attempts, scale, rd >>

\* the removal is requested whatever KillContainer returned
AfterKillAlwaysRemove(ok) == "destroy_remove"

\* where Destroy goes after KillContainer returned err
AfterKill(ok) == IF ok THEN "destroy_remove" ELSE "destroy_ret"

\* m.client.KillContainer(id, "kill")
DestroyKill(ok) ==
    /\ pc = "destroy_kill"
    /\ ok => Exists(destroy.Id)
    /\ calls' = Append(calls, Call("kill", destroy.Id, ok))
    /\ containers' = IF ok THEN Killed(destroy.Id) ELSE containers
    /\ destroy' = [destroy EXCEPT !.Err = IF ok THEN NoErr ELSE "err"]
    /\ pc' = AfterKill(ok)
    /\ UNCHANGED << nextId, events, ret, pre, run, launched, wg, runErr,
                    attempts, scale, rd >>

\* m.client.RemoveContainer(id, true)
DestroyRemove(ok) ==
    /\ pc = "destroy_remove"
    /\ ok => Exists(destroy.Id)
    /\ calls' = Append(calls, Call("remove", destroy.Id, ok))
    /\ containers' = IF ok THEN Removed(destroy.Id) ELSE containers
    /\ destroy' = [destroy EXCEPT !.Err = IF ok THEN NoErr ELSE "err"]
    /\ pc' = "destroy_ret"
    /\ UNCHANGED << nextId, events, ret, pre, run, launched, wg, runErr,
                    attempts, scale, rd >>

\* Destroy returns to the caller of the manager
DestroyReturn ==
    /\ pc = "destroy_ret"
    /\ destroy.Caller = "api"
    /\ pc' = "done"
    /\ ret' = [Op |-> "destroy", Err |-> destroy.Err, Ids |-> <<>>]
    /\ UNCHANGED << containers, nextId, events, calls, pre, run, launched, wg,
                    runErr, attempts, destroy, scale, rd >>

\* ---------------------------------------------------------------- classes
\* ContainersByImage(name, all), when every runtime call succeeds
ContainersByImage(name, all) ==
    SelectSeq(Listing(all), LAMBDA c : Contains(c.Image, name))

\* every container of the image passes
IdenticalAny(c, container) == TRUE

\* the test compares the hostname as well
IdenticalWithHostname(c, container) ==
    /\ c.Memory = container.Memory /\ c.Args = container.Args
    /\ c.Hostname = container.Hostname

\* the test IdenticalContainers applies to a container of the image
Identical(c, container) ==
    c.Memory = container.Memory /\ c.Args = container.Args

\* IdenticalContainers(container, all), when every runtime call succeeds
IdenticalContainers(container, all) ==
    SelectSeq(ContainersByImage(container.Image, all),
              LAMBDA c : Identical(c, container))

\* the runtime calls of ContainersByImage(name, all) when call number k
\* fails (k = 0: the listing): the listing, then one inspect per match
ByImageCalls(name, all, k) ==
    LET matches == ContainersByImage(name, all)
        n == IF k <= Len(matches) THEN k ELSE Len(matches)
    IN  << Call("list", all, k # 0) >> \o
        [j \in 1..n |-> Call("inspect", matches[j].Id, j # k)]

\* ---------------------------------------------------------------- Scale
ScaleBegin(container, count) ==
    /\ CanBegin
    /\ calls' = <<>>
    /\ ret' = NoRet
    /\ pre' = containers
    /\ scale' = [NoScale EXCEPT !.container = container, !.count = count,
                                !.given = container.Config]
    /\ pc' = "scale_inspect"
    /\ UNCHANGED << containers, nextId, events, run, launched, wg, runErr,
                    attempts, destroy, rd >>

\* the caller calls Scale a second time right after a Scale that returned
\* nil, with the same container (whose Config.Hostname a scale-up has reset
\* through the pointer) and the same count; the locals of the first call
\* and of its Run and Destroy are gone
ScaleRepeat ==
    /\ pc = "done"
    /\ ret.Op = "scale"
    /\ ret.Err = NoErr
    /\ ~scale.again
    /\ calls' = <<>>
    /\ ret' = NoRet
    /\ pre' = containers
    /\ scale' = [NoScale EXCEPT !.container = scale.container,
                                !.count = scale.count,
                                !.given = scale.container.Config,
                                !.again = TRUE]
    /\ run' = NoRun
    /\ launched' = <<>>
    /\ wg' = 0
    /\ runErr' = NoErr
    /\ attempts' = <<>>
    /\ destroy' = NoDestroy
    /\ pc' = "scale_inspect"
    /\ UNCHANGED << containers, nextId, events, rd >>

\* Scale returns err
ScaleReturn(err) ==
    /\ pc' = "done"
    /\ ret' = [Op |-> "scale", Err |-> err, Ids |-> <<>>]

\* info, err := m.client.InspectContainer(container.Id)
ScaleInspect(ok) ==
    /\ pc = "scale_inspect"
    /\ ok => Exists(scale.container.Id)
    /\ calls' = Append(calls, Call("inspect", scale.container.Id, ok))
    /\ IF ok
       THEN /\ scale' = [scale EXCEPT !.info = containers[IndexOf(scale.container.Id)]]
            /\ pc' = "scale_identical"
            /\ UNCHANGED ret
       ELSE /\ ScaleReturn("err")
            /\ UNCHANGED scale
    /\ UNCHANGED << containers, nextId, events, pre, run, launched, wg, runErr,
                    attempts, destroy, rd >>

\* imageContainers, err := m.IdenticalContainers(info, true); call number
\* k of it fails, or none does (k beyond the last call)
ScaleIdentical(k) ==
    /\ pc = "scale_identical"
    /\ k \in 0..(Len(ContainersByImage(scale.info.Image, TRUE)) + 1)
    /\ calls' = calls \o ByImageCalls(scale.info.Image, TRUE, k)
    /\ IF k > Len(ContainersByImage(scale.info.Image, TRUE))
       THEN /\ scale' = [scale EXCEPT
                            !.imageContainers = IdenticalContainers(scale.info, TRUE)]
            /\ pc' = "scale_decide"
            /\ UNCHANGED ret
       ELSE /\ ScaleReturn("err")
            /\ UNCHANGED scale
    /\ UNCHANGED << containers, nextId, events, pre, run, launched, wg, runErr,
                    attempts, destroy, rd >>

\* numKill one short
NumKillShort(containerCount, count) == containerCount - count - 1

\* numKill := containerCount - count
NumKill(containerCount, count) == containerCount - count

\* numAdd is the whole count
NumAddAll(containerCount, count) == count

\* numAdd := count - containerCount
NumAdd(containerCount, count) == count - containerCount

\* the hostname is left as the caller passed it
KeepHostname(config) == config

\* container.Config.Hostname = ""
ResetHostname(config) == [config EXCEPT !.Hostname = ""]

\* the last numKill of the class instead of the first
DelContainersLast(imageContainers, numKill) ==
    SubSeq(imageContainers, Len(imageContainers) - numKill + 1,
           Len(imageContainers))

\* delContainers := imageContainers[0:numKill]
DelContainers(imageContainers, numKill) == SubSeq(imageContainers, 1, numKill)

\* the check which way to scale
ScaleDirection(containerCount, count) ==
    IF containerCount > count THEN "down"
    ELSE IF containerCount < count THEN "up" ELSE "none"

\* the check which way to scale, up to the first Destroy or to Run
ScaleDecide ==
    /\ pc = "scale_decide"
    /\ LET containerCount == Len(scale.imageContainers)
           dir == ScaleDirection(containerCount, scale.count)
           del == DelContainers(scale.imageContainers,
                                NumKill(containerCount, scale.count))
       IN
       IF dir = "down" /\ del # <<>>
       THEN /\ scale' = [scale EXCEPT !.delContainers = del, !.i = 1]
            /\ DestroyEnter(del[1].Id, "scale")
            /\ UNCHANGED << ret, run, launched, wg, runErr, attempts >>
       ELSE IF dir = "up"
       THEN /\ scale' = [scale EXCEPT
                            !.container.Config = ResetHostname(scale.container.Config)]
            /\ RunEnter(ResetHostname(scale.container.Config),
                        NumAdd(containerCount, scale.count), FALSE, "scale")
            /\ UNCHANGED << ret, destroy >>
       ELSE /\ ScaleReturn(NoErr)
            /\ UNCHANGED << scale, destroy, run, launched, wg, runErr, attempts >>
    /\ UNCHANGED << containers, nextId, events, calls, pre, rd >>

\* the error of Destroy is not looked at
ScaleDestroyIgnored(err) == FALSE

\* if err := m.Destroy(c.Id); err != nil
ScaleDestroyFailed(err) == err # NoErr

\* Destroy returned to the scale-down loop: return its error, or go on
\* with the next of delContainers, or return nil after the last
ScaleAfterDestroy ==
    /\ pc = "destroy_ret"
    /\ destroy.Caller = "scale"
    /\ IF ScaleDestroyFailed(destroy.Err)
       THEN /\ ScaleReturn(destroy.Err)
            /\ UNCHANGED << scale, destroy >>
       ELSE IF scale.i < Len(scale.delContainers)
       THEN /\ scale' = [scale EXCEPT !.i = scale.i + 1]
            /\ DestroyEnter(scale.delContainers[scale.i + 1].Id, "scale")
            /\ UNCHANGED ret
       ELSE /\ ScaleReturn(NoErr)
            /\ UNCHANGED << scale, destroy >>
    /\ UNCHANGED << containers, nextId, events, calls, pre, run, launched, wg,
                    runErr, attempts, rd >>

\* the container a caller hands to Scale: the identifier of a container of
\* the runtime and a configuration of its image, the one the runtime holds
\* for it or another one
ScaleInputs ==
    UNION { { [Id |-> c.Id, Config |-> cfg] :
                cfg \in {k \in Configs : k.Image = c.Image} \cup {ConfigOf(c)} } :
            c \in Range(containers) }

\* ---------------------------------------------------------------- RedeployContainers
RedeployBegin(image) ==
    /\ CanBegin
    /\ calls' = <<>>
    /\ ret' = NoRet
    /\ pre' = containers
    /\ rd' = [NoRd EXCEPT !.image = image]
    /\ pc' = "rd_list"
    /\ UNCHANGED << containers, nextId, events, run, launched, wg, runErr,
                    attempts, destroy, scale >>

\* RedeployContainers returns err
RedeployReturn(err) ==
    /\ pc' = "done"
    /\ ret' = [Op |-> "redeploy", Err |-> err, Ids |-> <<>>]

\* the results of RedeployContainers(image string) error, in order
RedeployResults == << ret.Err >>

\* m.Containers(true): the containers of the runtime, running or not
RedeployAllTrue == TRUE

\* the argument of m.Containers in RedeployContainers
RedeployAll == FALSE

\* containers, err := m.Containers(false)
RdList(ok) ==
    /\ pc = "rd_list"
    /\ calls' = Append(calls, Call("list", RedeployAll, ok))
    /\ IF ok
       THEN /\ rd' = [rd EXCEPT !.containers = Listing(RedeployAll), !.i = 1]
            /\ pc' = "rd_loop"
            /\ UNCHANGED ret
       ELSE /\ RedeployReturn("err")
            /\ UNCHANGED rd
    /\ UNCHANGED << containers, nextId, events, pre, run, launched, wg, runErr,
                    attempts, destroy, scale >>

\* c.Image == image
RedeployMatchesExact(c, image) == c.Image = image

\* strings.Index(c.Image, image) > -1
RedeployMatches(c, image) == Contains(c.Image, image)

\* the listing of the runtime as it is now, taken again at every step
RedeployRangeLive == Listing(RedeployAll)

\* for _, c := range containers: the loop ranges over the slice that
\* m.Containers returned at the start of the call
RedeployRange == rd.containers

\* the head of the loop over the listing: leave it after the last
\* container, skip a container of another image, enter the body for a match
RdLoop ==
    /\ pc = "rd_loop"
    /\ IF rd.i > Len(RedeployRange)
       THEN pc' = "rd_event" /\ UNCHANGED rd
       ELSE IF RedeployMatches(RedeployRange[rd.i], rd.image)
       THEN pc' = "rd_inspect" /\ UNCHANGED rd
       ELSE pc' = "rd_loop" /\ rd' = [rd EXCEPT !.i = rd.i + 1]
    /\ UNCHANGED << containers, nextId, events, calls, ret, pre, run, launched,
                    wg, runErr, attempts, destroy, scale >>

\* info, err := m.client.InspectContainer(c.Id); cfg = info.Config
RdInspect(ok) ==
    /\ pc = "rd_inspect"
    /\ ok => Exists(RedeployRange[rd.i].Id)
    /\ calls' = Append(calls, Call("inspect", RedeployRange[rd.i].Id, ok))
    /\ IF ok
       THEN /\ rd' = [rd EXCEPT
                        !.cfg = ConfigOf(containers[IndexOf(RedeployRange[rd.i].Id)])]
            /\ pc' = "rd_pull"
            /\ UNCHANGED ret
       ELSE /\ RedeployReturn("err")
            /\ UNCHANGED rd
    /\ UNCHANGED << containers, nextId, events, pre, run, launched, wg, runErr,
                    attempts, destroy, scale >>

\* the image RedeployContainers(image) pulls for the container c
RedeployPullImage(image, c) == image

\* RedeployContainers goes on whatever PullImage returned
RedeployPullIgnored(ok) == FALSE

\* if err := m.client.PullImage(image, nil); err != nil { return err }
RedeployPullFailed(ok) == ~ok

\* m.client.PullImage(image, nil), then m.Destroy(c.Id) is called
RdPull(ok) ==
    /\ pc = "rd_pull"
    /\ calls' = Append(calls,
                  Call("pull", RedeployPullImage(rd.image, RedeployRange[rd.i]), ok))
    /\ IF ~RedeployPullFailed(ok)
       THEN /\ DestroyEnter(RedeployRange[rd.i].Id, "redeploy")
            /\ UNCHANGED ret
       ELSE /\ RedeployReturn("err")
            /\ UNCHANGED destroy
    /\ UNCHANGED << containers, nextId, events, pre, run, launched, wg, runErr,
                    attempts, scale, rd >>

\* where RedeployContainers goes on after m.Destroy(c.Id) returned err
RedeployAfterDestroy(err) == "rd_create"

\* m.Destroy(c.Id) returned; its error is not looked at
RdAfterDestroy ==
    /\ pc = "destroy_ret"
    /\ destroy.Caller = "redeploy"
    /\ pc' = RedeployAfterDestroy(destroy.Err)
    /\ ret' = IF pc' = "done"
              THEN [Op |-> "redeploy", Err |-> destroy.Err, Ids |-> <<>>]
              ELSE ret
    /\ UNCHANGED << containers, nextId, events, calls, pre, run, launched, wg,
                    runErr, attempts, destroy, scale, rd >>

\* containerId, err := m.client.CreateContainer(cfg, "")
RdCreate(ok) ==
    /\ pc = "rd_create"
    /\ ok => nextId <= MaxId
    /\ calls' = Append(calls, Call("create", rd.cfg, ok))
    /\ IF ok
       THEN /\ containers' = Created(rd.cfg)
            /\ nextId' = nextId + 1
            /\ rd' = [rd EXCEPT !.containerId = nextId]
            /\ pc' = "rd_start"
            /\ UNCHANGED ret
       ELSE /\ RedeployReturn("err")
            /\ UNCHANGED << containers, nextId, rd >>
    /\ UNCHANGED << events, pre, run, launched, wg, runErr, attempts, destroy,
                    scale >>

\* m.client.StartContainer(containerId, info.HostConfig); deployed = true
RdStart(ok) ==
    /\ pc = "rd_start"
    /\ calls' = Append(calls, Call("start", rd.containerId, ok))
    /\ IF ok
       THEN /\ containers' = Started(rd.containerId)
            /\ rd' = [rd EXCEPT !.deployed = TRUE, !.i = rd.i + 1]
            /\ pc' = "rd_loop"
            /\ UNCHANGED ret
       ELSE /\ RedeployReturn("err")
            /\ UNCHANGED << containers, rd >>
    /\ UNCHANGED << nextId, events, pre, run, launched, wg, runErr, attempts,
                    destroy, scale >>

\* the event RedeployContainers saves
DeployEvent(image) == [Type |-> "deploy", Message |-> image, Tags |-> <<"deploy">>]

\* after the loop: if deployed, m.SaveEvent(evt), which may fail; return
RdEvent(ok) ==
    /\ pc = "rd_event"
    /\ IF rd.deployed
       THEN /\ events' = IF ok THEN Append(events, DeployEvent(rd.image)) ELSE events
            /\ calls' = Append(calls, Call("save_event", rd.image, ok))
            /\ RedeployReturn(IF ok THEN NoErr ELSE "err")
       ELSE /\ ok
            /\ UNCHANGED << events, calls >>
            /\ RedeployReturn(NoErr)
    /\ UNCHANGED << containers, nextId, pre, run, launched, wg, runErr,
                    attempts, destroy, scale, rd >>

Next ==
    \/ \E cfg \in Configs, n \in 0..MaxCount, p \in BOOLEAN : RunBegin(cfg, n, p)
    \/ \E i \in DOMAIN attempts, ok \in BOOLEAN : AttemptPull(i, ok)
    \/ \E i \in DOMAIN attempts, ok \in BOOLEAN : AttemptCreate(i, ok)
    \/ \E i \in DOMAIN attempts, ok \in BOOLEAN : AttemptStart(i, ok)
    \/ \E i \in DOMAIN attempts : AttemptAppendRead(i)
    \/ \E i \in DOMAIN attempts : AttemptAppendWrite(i)
    \/ \E i \in DOMAIN attempts : AttemptDone(i)
    \/ RunReturn
    \/ \E id \in Ids \cup {nextId} : DestroyBegin(id)
    \/ \E ok \in BOOLEAN : DestroyKill(ok)
    \/ \E ok \in BOOLEAN : DestroyRemove(ok)
    \/ DestroyReturn
    \/ \E c \in ScaleInputs, n \in 0..MaxScale : ScaleBegin(c, n)
    \/ ScaleRepeat
    \/ \E ok \in BOOLEAN : ScaleInspect(ok)
    \/ \E k \in 0..Len(containers) + 1 : ScaleIdentical(k)
    \/ ScaleDecide
    \/ ScaleAfterDestroy
    \/ \E image \in RedeployImages : RedeployBegin(image)
    \/ \E ok \in BOOLEAN : RdList(ok)
    \/ RdLoop
    \/ \E ok \in BOOLEAN : RdInspect(ok)
    \/ \E ok \in BOOLEAN : RdPull(ok)
    \/ RdAfterDestroy
    \/ \E ok \in BOOLEAN : RdCreate(ok)
    \/ \E ok \in BOOLEAN : RdStart(ok)
    \/ \E ok \in BOOLEAN : RdEvent(ok)

Spec == Init /\ [][Next]_vars

\* ---------------------------------------------------------------- claims
\* which operation the caller started
InRun == run.Caller = "api"
InScale == scale.container.Id # 0
InRedeploy == rd.image # <<>>
Finished == pc = "done"

\* the attempts of the launch batch in progress, by outcome
Succeeded == {i \in DOMAIN attempts : attempts[i].pc = "done"}
Failed == {i \in DOMAIN attempts : attempts[i].pc = "failed"}

\* every attempt of the batch has completed or failed, and Run waits
RunResolved ==
    /\ pc = "run_wait"
    /\ DOMAIN attempts = Succeeded \cup Failed

\* the failures Run hands back: it has one error value for the batch
RecordedFailures == IF runErr = NoErr THEN 0 ELSE 1

\* the positions of the call log that hold a call of one of the kinds ops
CallsOf(ops) == {j \in DOMAIN calls : calls[j].op \in ops}

\* C1: once every attempt of a launch batch has completed or failed, Run
\* returns: the wait is over, whatever the failures were.  (No goroutine is
\* left to change the counter, so a wait that is not over then is never over.)
C1_RunReturnsOnceResolved == RunResolved => wg = 0

\* C2: a batch of N attempts of which k failed holds exactly N-k successes
\* and exactly k failures when it has resolved, one outcome per attempt.
C2_OneOutcomePerAttempt ==
    RunResolved =>
        /\ Len(launched) = run.Count - Cardinality(Failed)
        /\ RecordedFailures = Cardinality(Failed)

\* C3: a batch of N attempts that all succeeded returns exactly the N
\* identifiers of the started replicas, none lost or duplicated, and no
\* error, and it has not returned while an attempt was unfinished.
C3_AllSucceedReturnsAll ==
    (Finished /\ InRun /\ Failed = {}) =>
        /\ DOMAIN attempts = Succeeded
        /\ Len(ret.Ids) = run.Count
        /\ Range(ret.Ids) = {attempts[i].id : i \in DOMAIN attempts}
        /\ ret.Err = NoErr

\* the class of the descriptor ref among the containers cs: the image
\* contains the image of ref, and memory limit and argument count are equal
ClassIn(cs, ref) ==
    SelectSeq(cs, LAMBDA c : /\ Contains(c.Image, ref.Image)
                             /\ c.Memory = ref.Memory
                             /\ c.Args = ref.Args)

\* a descriptor for a reference the runtime does not hold: of no class
NoRef == [Id |-> 0, Image |-> <<"none">>, Args |-> 0, Memory |-> 0,
          Hostname |-> "", State |-> "none"]

\* the reference of the Scale call, as the runtime held it at the call
ScaleRef ==
    IF \E c \in Range(pre) : c.Id = scale.container.Id
    THEN CHOOSE c \in Range(pre) : c.Id = scale.container.Id
    ELSE NoRef

\* the size of the class of the reference when Scale was called
Current == Len(ClassIn(pre, ScaleRef))

\* the containers the runtime held at the call and holds no more
Destroyed == {c \in Range(pre) : ~Exists(c.Id)}

\* the calls of the log that succeeded, among those of the kinds ops
OkCallsOf(ops) == {j \in CallsOf(ops) : calls[j].ok}

C6_ScaleDownAbortsOnFailure ==
    InScale =>
        /\ \A j \in CallsOf({"kill", "remove"}) :
              ~calls[j].ok =>
                  /\ j = Len(calls)
                  /\ pc \in {"destroy_ret", "done"}
                  /\ Finished => ret.Err # NoErr
        /\ \A j \in OkCallsOf({"remove"}) : ~Exists(calls[j].arg)
        /\ CallsOf({"kill", "remove"}) # {} =>
              CallsOf({"create", "start", "pull"}) = {}

\* C6 witness: Scale returned an error after one member was removed, the
\* destroy of the next failed, and a third member of the kill-set was
\* never killed
C6_Witness ==
    /\ Finished /\ InScale /\ ret.Err # NoErr
    /\ OkCallsOf({"remove"}) # {}
    /\ ~calls[Len(calls)].ok
    /\ calls[Len(calls)].op \in {"kill", "remove"}
    /\ \E c \in Range(scale.delContainers) :
          /\ Exists(c.Id)
          /\ \A j \in CallsOf({"kill", "remove"}) : calls[j].arg # c.Id

\* the runtime calls of a redeployment step
StepOps == {"inspect", "pull", "kill", "remove", "create", "start"}

\* the replicas the redeployment matched, in the order of its listing
RdMatched == SelectSeq(rd.containers, LAMBDA c : Contains(c.Image, rd.image))

\* the image reference of the container id when the operation was called
ImageAtCall(id) == (CHOOSE c \in Range(pre) : c.Id = id).Image

\* C7: in a redeployment a failed inspect, pull, kill, remove, create or
\* start is the last runtime call of the call, which returns an error: no
\* later step runs, and nothing is created for a replica whose destroy failed.
C7_RedeployAbortsOnAnyFailure ==
    InRedeploy =>
        \A j \in CallsOf(StepOps) :
            ~calls[j].ok =>
                /\ j = Len(calls)
                /\ Finished => ret.Err # NoErr

\* C8: when the pull for the j-th matched replica fails (j >= 2), the
\* replicas before it are gone and j-1 new ones are started and running,
\* the j-th and the later ones are as they were and were never killed or
\* removed, and the call returns an error.
C8_PullFailureLeavesPrefixRedeployed ==
    (/\ InRedeploy /\ Finished
     /\ calls # <<>>
     /\ calls[Len(calls)].op = "pull"
     /\ ~calls[Len(calls)].ok
     /\ Cardinality(CallsOf({"pull"})) >= 2) =>
        LET j == Cardinality(CallsOf({"pull"})) IN
        /\ \A k \in 1..(j - 1) : ~Exists(RdMatched[k].Id)
        /\ Cardinality(OkCallsOf({"start"})) = j - 1
        /\ \A s \in OkCallsOf({"start"}) :
              /\ Exists(calls[s].arg)
              /\ containers[IndexOf(calls[s].arg)].State = "running"
        /\ \A k \in j..Len(RdMatched) :
              /\ RdMatched[k] \in Range(containers)
              /\ \A c \in CallsOf({"kill", "remove"}) : calls[c].arg # RdMatched[k].Id
        /\ ret.Err # NoErr

\* C9: a redeployment that has returned, and whose write to the event table
\* did not fail, has emitted one "deploy" event if a replacement was started
\* during the call, and none otherwise.
C9_OneEventIffRedeployed ==
    (InRedeploy /\ Finished /\ \A j \in CallsOf({"save_event"}) : calls[j].ok) =>
        /\ Len(events) = IF OkCallsOf({"start"}) # {} THEN 1 ELSE 0
        /\ \A e \in Range(events) : e.Type = "deploy"

\* C10: every pull of a redeployment follows the inspect of a matched
\* replica and names that replica's own image reference, and each inspected
\* replica gets exactly one pull.
C10_PullsExactImageOncePerReplica ==
    InRedeploy =>
        /\ \A j \in CallsOf({"pull"}) :
              /\ j > 1
              /\ calls[j - 1].op = "inspect"
              /\ calls[j].arg = ImageAtCall(calls[j - 1].arg)
        /\ pc # "rd_pull" =>
              Cardinality(CallsOf({"pull"})) = Cardinality(OkCallsOf({"inspect"}))

\* the replacements started so far by the redeployment
Replaced == Cardinality(OkCallsOf({"start"}))

SameFields(a, b) ==
    a.Image = b.Image /\ a.Args = b.Args /\ a.Memory = b.Memory

\* C12: when Scale has computed the class of its reference a, a is in it,
\* and every container b of the runtime is in it iff a is in the class
\* computed for b, and iff image reference, argument count and memory limit
\* of a and b are equal.
C12_ClassIsSymmetricAndStructural ==
    pc = "scale_decide" =>
        /\ scale.info \in Range(scale.imageContainers)
        /\ \A b \in Range(containers) :
              /\ b \in Range(scale.imageContainers)
                    <=> scale.info \in Range(IdenticalContainers(b, TRUE))
              /\ b \in Range(scale.imageContainers) <=> SameFields(scale.info, b)

InDestroy == destroy.Caller = "api"

\* the kill of the Destroy call in progress succeeded / its removal failed
KillSucceeded ==
    \E j \in OkCallsOf({"kill"}) : calls[j].arg = destroy.Id
RemoveSucceeded ==
    \E j \in OkCallsOf({"remove"}) : calls[j].arg = destroy.Id
RemoveFailed ==
    \E j \in CallsOf({"remove"}) : calls[j].arg = destroy.Id /\ ~calls[j].ok

\* C13: a Destroy(id) that has returned reports success iff both its kill
\* and its removal succeeded; after a successful kill and a failed removal
\* it returns the error, issues no further call, and the replica is still
\* there, killed and not removed.
C13_DestroyNeedsBothSteps ==
    (InDestroy /\ Finished) =>
        /\ ret.Err = NoErr <=> (KillSucceeded /\ RemoveSucceeded)
        /\ (KillSucceeded /\ RemoveFailed) =>
              /\ ret.Err # NoErr
              /\ Len(calls) = 2
              /\ Exists(destroy.Id)
              /\ containers[IndexOf(destroy.Id)].State = "exited"

\* C13 witness: Destroy returned an error after its kill succeeded and its
\* removal failed
C13_Witness ==
    /\ InDestroy /\ Finished
    /\ KillSucceeded /\ RemoveFailed
    /\ ret.Err # NoErr

\* the containers the runtime holds now and did not hold at the call
NewContainers ==
    {c \in Range(containers) : \A p \in Range(pre) : p.Id # c.Id}

\* C14: every create call of a Scale asks for an empty hostname, and every
\* container a Scale has created has an empty hostname.
C14_ScaleUpClearsHostname ==
    InScale =>
        /\ \A j \in CallsOf({"create"}) : calls[j].arg.Hostname = ""
        /\ \A c \in NewContainers : c.Hostname = ""

\* C14 witness: a Scale called with a reference of hostname "web" has
\* created and started a replica
C14_Witness ==
    /\ InScale
    /\ scale.given.Hostname = "web"
    /\ \E c \in NewContainers : c.State = "running"

\* the first current - count members of the class, in listing order
KillSet == SubSeq(ClassIn(pre, ScaleRef), 1, Current - scale.count)

\* the kill calls and the remove calls of the log, in order
Kills == SelectSeq(calls, LAMBDA c : c.op = "kill")
Removes == SelectSeq(calls, LAMBDA c : c.op = "remove")

ScaledUp == InScale /\ run.Caller = "scale"

\* the configuration the caller passed has the image, argument count and
\* memory limit the runtime holds for the reference
GivenMatchesRef == SameFields(scale.given, ScaleRef)

\* the part of C16 about the attempts: a Scale calls Run only above the
\* current class size, then with count - current attempts that do not pull,
\* and kills and removes nothing; a Scale above the class size that
\* returned nil has called Run
ScaleUpAttempts ==
    /\ ScaledUp =>
          /\ Current < scale.count
          /\ Len(attempts) = scale.count - Current
          /\ ~run.Pull
          /\ CallsOf({"pull", "kill", "remove"}) = {}
    /\ (InScale /\ Finished /\ ret.Err = NoErr /\ Current < scale.count) => ScaledUp

StartedByBatch ==
    {attempts[i].id : i \in {k \in DOMAIN attempts :
                                attempts[k].pc \in {"read", "write", "signal", "done"}}}

\* a scale-up whose attempts have all completed or failed, one at least failed
ScaleUpFailed ==
    /\ ScaledUp
    /\ DOMAIN attempts = Succeeded \cup Failed
    /\ Failed # {}

\* the part of C17 about the replicas: nothing is killed or removed in a
\* scale-up, and every replica the batch started is running
NoRollback ==
    ScaledUp =>
        /\ CallsOf({"kill", "remove"}) = {}
        /\ \A c \in Range(containers) :
              c.Id \in StartedByBatch => c.State = "running"

\* C17: a scale-up in which an attempt failed returns a non-nil error to
\* the caller of Scale (the wait of its batch ends, and the value it returns
\* is an error), and the replicas the batch started are left running, none
\* killed or removed.
C17_ScaleUpFailureIsReturned ==
    /\ NoRollback
    /\ ScaleUpFailed =>
          /\ runErr # NoErr
          /\ wg = 0
          /\ Finished => ret.Err # NoErr

\* the call at position j of the log is a call op, with the outcome ok
IsCall(j, op, ok) == j \in DOMAIN calls /\ calls[j].op = op /\ calls[j].ok = ok

\* the position of the inspect call that opened the iteration the call at
\* position j belongs to: the last inspect at or before j (0 if none)
IterationOf(j) ==
    LET before == {k \in 1..j : calls[k].op = "inspect"}
    IN  IF before = {} THEN 0 ELSE CHOOSE k \in before : \A l \in before : l <= k

\* the calls of one kind made in the iteration opened at position k, up to j
InIteration(k, j, op) == {l \in k..j : calls[l].op = op}

\* C18: redeploy handles the matched replicas one at a time, each in the
\* order inspect, pull, destroy (kill, then remove), create, start: every
\* call but the listing follows the call of the step before it, a kill or a
\* remove comes only after the successful pull of the iteration and is of
\* the replica that iteration inspected, and an inspect (the first step of
\* the next replica) comes only after the listing or a successful start.
C18_RedeployStepsInOrder ==
    InRedeploy =>
      \A j \in DOMAIN calls :
        LET c == calls[j]
            k == IterationOf(j)
        IN  /\ c.op = "list" => j = 1
            /\ c.op = "inspect" =>
                  /\ IsCall(j - 1, "list", TRUE) \/ IsCall(j - 1, "start", TRUE)
                  /\ \A l \in 1..(j - 1) : calls[l].op = "inspect" => calls[l].arg # c.arg
            /\ c.op = "pull" => IsCall(j - 1, "inspect", TRUE)
            /\ c.op = "kill" =>
                  /\ IsCall(j - 1, "pull", TRUE)
                  /\ k = j - 2 /\ calls[k].arg = c.arg
            /\ c.op = "remove" =>
                  /\ IsCall(j - 1, "kill", TRUE) /\ calls[j - 1].arg = c.arg
                  /\ k = j - 3 /\ calls[k].arg = c.arg
            /\ c.op = "create" =>
                  /\ IsCall(j - 1, "kill", FALSE) \/ IsCall(j - 1, "remove", TRUE)
                       \/ IsCall(j - 1, "remove", FALSE)
                  /\ k > 0 /\ InIteration(k, j, "pull") # {}
            /\ c.op = "start" => IsCall(j - 1, "create", TRUE)
            /\ c.op = "save_event" => j = Len(calls) /\ IsCall(j - 1, "start", TRUE)
            /\ c.op \in StepOps => Cardinality(InIteration(k, j, c.op)) = 1

\* C18 witness: a redeploy that returned nil after it replaced two replicas,
\* each with all five steps
C18_Witness ==
    /\ InRedeploy /\ Finished /\ ret.Err = NoErr
    /\ Cardinality(OkCallsOf({"inspect"})) = 2
    /\ Cardinality(OkCallsOf({"pull"})) = 2
    /\ Cardinality(OkCallsOf({"kill"})) = 2
    /\ Cardinality(OkCallsOf({"remove"})) = 2
    /\ Cardinality(OkCallsOf({"create"})) = 2
    /\ Cardinality(OkCallsOf({"start"})) = 2

\* the replicas of the runtime, at the call, whose image reference contains
\* the substring of the redeployment: all of them, or the running ones
MatchSet(all) ==
    {c.Id : c \in {d \in Range(pre) :
                     Contains(d.Image, rd.image) /\ (all \/ d.State = "running")}}

\* the replicas the redeployment inspected, killed or removed
Touched == {calls[j].arg : j \in CallsOf({"inspect", "kill", "remove"})}

\* the replicas the redeployment handled: those it inspected successfully
Handled == {calls[j].arg : j \in OkCallsOf({"inspect"})}

\* a redeployment leaves what is outside the set ids as it was at the call,
\* and creates replicas only of images that contain the substring
OnlyWithin(ids) ==
    /\ Touched \subseteq ids
    /\ \A c \in Range(pre) : c.Id \notin ids => c \in Range(containers)
    /\ \A j \in CallsOf({"create"}) : Contains(calls[j].arg.Image, rd.image)

\* C19 (as claimed): the match set of a redeployment is every replica whose
\* image contains the substring, running or not: a redeployment that
\* returned nil has handled all of them, and nothing outside is touched.
C19_MatchSetIsEveryReplica ==
    InRedeploy =>
        /\ OnlyWithin(MatchSet(TRUE))
        /\ (Finished /\ ret.Err = NoErr) => Handled = MatchSet(TRUE)

\* C19 (amended): the match set of a redeployment is every running replica
\* whose image contains the substring: a redeployment that returned nil has
\* handled all of them, and a replica that is not running or whose image
\* does not contain the substring is not pulled for, destroyed or replaced.
C19_MatchSetIsRunningReplicas ==
    InRedeploy =>
        /\ OnlyWithin(MatchSet(FALSE))
        /\ (Finished /\ ret.Err = NoErr) => Handled = MatchSet(FALSE)

\* C19 witness: a redeployment has returned nil in a runtime that held two
\* running replicas and a stopped one of the image, and a replica of
\* another image or none
C19_Witness ==
    /\ InRedeploy /\ Finished /\ ret.Err = NoErr
    /\ Cardinality(MatchSet(FALSE)) = 2
    /\ Cardinality(MatchSet(TRUE)) = 3
    /\ Handled = MatchSet(FALSE)
    /\ Replaced = 2

\* C20: a Destroy(id) that has returned has sent the kill first and then
\* requested the removal of id, whatever the kill returned: its calls are a
\* kill of id followed by a remove of id, also when the kill failed.
C20_DestroyAlwaysRequestsRemoval ==
    (InDestroy /\ Finished) =>
        /\ Len(calls) = 2
        /\ calls[1].op = "kill" /\ calls[1].arg = destroy.Id
        /\ calls[2].op = "remove" /\ calls[2].arg = destroy.Id

\* the identifiers of the containers the runtime held when the call began
IdsAtCall == {c.Id : c \in Range(pre)}

\* the number of containers in cs whose image contains the substring
Matching(cs) ==
    Cardinality({c.Id : c \in {d \in Range(cs) : Contains(d.Image, rd.image)}})

\* every runtime call of the operation so far has succeeded
AllCallsOk == \A j \in DOMAIN calls : calls[j].ok

\* no two calls of the kind op in the log have the same argument
AtMostOncePer(op) ==
    \A j, k \in CallsOf({op}) : calls[j].arg = calls[k].arg => j = k

\* C21: redeploy works on the listing taken at the start of the call: what
\* it ranges over is the running part of the runtime as it was at the call,
\* every replica it inspects, kills or removes was there at the call (a
\* replacement it created is never one of them), each replica is inspected
\* and killed at most once and the loop index passes over the snapshot once,
\* so at most as many are created as the snapshot matched; and a call in
\* which every runtime call succeeded leaves as many replicas of matching
\* image as it found.
C21_RedeployWorksOnSnapshot ==
    (InRedeploy /\ OkCallsOf({"list"}) # {}) =>
        /\ rd.containers = SelectSeq(pre, LAMBDA c : c.State = "running")
        /\ Touched \subseteq IdsAtCall
        /\ \A c \in NewContainers : c.Id \notin Touched
        /\ AtMostOncePer("inspect") /\ AtMostOncePer("kill")
        /\ AtMostOncePer("remove")
        /\ rd.i \in 1..(Len(rd.containers) + 1)
        /\ Cardinality(CallsOf({"create"})) <= Len(RdMatched)
        /\ (Finished /\ AllCallsOk) => Matching(containers) = Matching(pre)

\* C21 witness: a redeployment has returned with every call successful
\* after it replaced two replicas, and the two replacements, whose image
\* matches, were not touched
C21_Witness ==
    /\ InRedeploy /\ Finished /\ AllCallsOk
    /\ Replaced = 2
    /\ Cardinality(NewContainers) = 2
    /\ \A c \in NewContainers : Contains(c.Image, rd.image) /\ c.Id \notin Touched
    /\ Matching(containers) = Matching(pre)

\* the Scale in progress is the second of two with the same reference and
\* count, called right after the first returned nil
SecondScale == InScale /\ scale.again

\* the identifiers of the containers the runtime starts with
InitialIds == UNION { {c.Id : c \in Range(f)} : f \in InitialFleets }

\* the replicas the first Scale created (none but Scale has created any)
CreatedByFirst == {c \in Range(pre) : c.Id \notin InitialIds}

\* the replicas created by the scale-up from the configuration the caller
\* supplied fall into the class of the inspected reference
CreatedFallInClass == CreatedByFirst \subseteq Range(ClassIn(pre, ScaleRef))

\* the runtime fails no call it can serve: a call that failed is the
\* inspect of a container the runtime does not hold
NothingFails ==
    \A j \in DOMAIN calls :
        calls[j].ok \/ (calls[j].op = "inspect" /\ calls[j].arg \notin IdsAtCall)

\* the second Scale has found the class at its count and returned nil
FoundAtCount ==
    /\ ret.Err = NoErr
    /\ Len(scale.imageContainers) = scale.count
    /\ containers = pre

\* C22 (as claimed): when nothing fails and the created replicas fall into
\* the class, the second of two Scale calls with the same reference and
\* count issues no kill, remove, create or start, and finds the class at
\* its count.
C22_ScaleTwiceFindsCount ==
    (SecondScale /\ NothingFails /\ CreatedFallInClass) =>
        /\ CallsOf({"kill", "remove", "create", "start"}) = {}
        /\ Finished => FoundAtCount

\* C22 (amended): as claimed when the first Scale left the reference in the
\* runtime; when the first Scale destroyed the reference in scaling down,
\* the second returns the error of its inspect call, its only call, and
\* likewise issues no kill, remove, create or start.
C22_ScaleTwiceFindsCountOrNoReference ==
    (SecondScale /\ NothingFails /\ CreatedFallInClass) =>
        /\ CallsOf({"kill", "remove", "create", "start"}) = {}
        /\ (Finished /\ ScaleRef # NoRef) => FoundAtCount
        /\ (Finished /\ ScaleRef = NoRef) =>
              /\ ret.Err # NoErr
              /\ Len(calls) = 1 /\ calls[1].op = "inspect"
              /\ containers = pre

\* C22 witness: the second Scale has returned nil, having found at its
\* count of three the class that the first Scale raised by two replicas
C22_Witness ==
    /\ SecondScale /\ Finished /\ NothingFails
    /\ Cardinality(CreatedByFirst) = 2 /\ CreatedFallInClass
    /\ scale.count = 3
    /\ FoundAtCount
    /\ calls # <<>>

====
